---- MODULE Spec2Model ----
(***************************************************************************)
(* Model of LLMConsensus (src/llm_consensus.py): the three oracle adapters,*)
(* the two prompt builders, the consensus check and the get_consensus loop.*)
(*                                                                         *)
(* Python strings are sequences of one-character strings, so that split,   *)
(* strip and lower are computed; the fixed literals of the prompts are kept*)
(* as single pieces of the sequence.  A dict is the sequence of its        *)
(* [key, value] items in insertion order.                                  *)
(***************************************************************************)
EXTENDS Integers, Sequences, FiniteSets, TLC

\* Largest max_iterations the object is configured with (line 34 sets 5).
MaxIter == 5

\* Python's None, distinct from every string.
None == <<"None">>

\* self.models of __init__, in insertion order.
ModelNames == <<"ChatGPT", "Gemini", "Claude">>

\* Questions passed to get_consensus: the empty one and a one-character one.
Questions == {<< >>, <<"q">>}

\* Payloads an oracle can hand back (message.content / response.text).
RawTrueA == <<"T", "r", "u", "e", "\n", "a">>
RawTrueEmpty == <<"T", "r", "u", "e", "\n">>
RawFalseB == <<"F", "a", "l", "s", "e", "\n", "b">>
RawBareA == <<"a">>
RawPaddedTrueA == <<" ", "T", "R", "U", "E", " ", "\n", " ", "a", " ">>
RawOutputs == {RawTrueA, RawTrueEmpty, RawFalseB, RawBareA, RawPaddedTrueA}

\* What one oracle call can do: raise, or return a payload that is a string
\* or None (OpenAI's message.content and Gemini's response.text are optional).
OracleOutcomes ==
    {[ok |-> TRUE, content |-> c] : c \in RawOutputs \cup {None}}
        \cup {[ok |-> FALSE, content |-> None]}

----------------------------------------------------------------------------
\* str methods used by the adapters

Whitespace == {" ", "\n", "\t", "\r"}

UpperChars == <<"A","B","C","D","E","F","G","H","I","J","K","L","M",
                "N","O","P","Q","R","S","T","U","V","W","X","Y","Z">>
LowerChars == <<"a","b","c","d","e","f","g","h","i","j","k","l","m",
                "n","o","p","q","r","s","t","u","v","w","x","y","z">>

LowerChar(c) ==
    IF \E i \in 1..Len(UpperChars) : UpperChars[i] = c
    THEN LowerChars[CHOOSE i \in 1..Len(UpperChars) : UpperChars[i] = c]
    ELSE c

\* s.lower()
lower(s) == [i \in 1..Len(s) |-> LowerChar(s[i])]

\* s.strip()
strip(s) ==
    LET keep == {i \in 1..Len(s) : s[i] \notin Whitespace}
    IN  IF keep = {} THEN << >>
        ELSE LET lo == CHOOSE i \in keep : \A j \in keep : i <= j
                 hi == CHOOSE i \in keep : \A j \in keep : j <= i
             IN  SubSeq(s, lo, hi)

\* s.split('\n', 1)
split(s) ==
    LET nl == {i \in 1..Len(s) : s[i] = "\n"}
    IN  IF nl = {} THEN <<s>>
        ELSE LET i == CHOOSE x \in nl : \A y \in nl : x <= y
             IN  <<SubSeq(s, 1, i - 1), SubSeq(s, i + 1, Len(s))>>

TrueWord == <<"t", "r", "u", "e">>

\* the first line compared without lower()
ParseContentCaseSensitive(content) ==
    IF content = None
    THEN [agrees |-> FALSE, response |-> content]
    ELSE LET parts == split(content)
         IN  [agrees   |-> strip(parts[1]) = TrueWord,
              response |-> IF Len(parts) > 1 THEN strip(parts[2]) ELSE content]

\* The try/except body shared by the three adapters: None has no split, the
\* AttributeError is caught by the bare except.
ParseContent(content) ==
    IF content = None
    THEN [agrees |-> FALSE, response |-> content]
    ELSE LET parts == split(content)
         IN  [agrees   |-> lower(strip(parts[1])) = TrueWord,
              response |-> IF Len(parts) > 1 THEN strip(parts[2]) ELSE content]

\* An adapter either raises (the oracle call is outside the try) or returns a
\* ModelResponse.
_ask_chatgpt(outcome) ==
    IF ~outcome.ok THEN [raised |-> TRUE, value |-> None]
    ELSE [raised |-> FALSE, value |-> ParseContent(outcome.content)]

_ask_gemini(outcome) ==
    IF ~outcome.ok THEN [raised |-> TRUE, value |-> None]
    ELSE [raised |-> FALSE, value |-> ParseContent(outcome.content)]

_ask_claude(outcome) ==
    IF ~outcome.ok THEN [raised |-> TRUE, value |-> None]
    ELSE [raised |-> FALSE, value |-> ParseContent(outcome.content)]

\* self.models[model_name](prompt)
model_func(model_name, outcome) ==
    CASE model_name = "ChatGPT" -> _ask_chatgpt(outcome)
      [] model_name = "Gemini"  -> _ask_gemini(outcome)
      [] model_name = "Claude"  -> _ask_claude(outcome)

----------------------------------------------------------------------------
\* dict operations

\* d[key] = value: replaces in place, appends a new key at the end.
DictSet(d, key, value) ==
    IF \E i \in 1..Len(d) : d[i].key = key
    THEN [i \in 1..Len(d) |->
            IF d[i].key = key THEN [key |-> key, value |-> value] ELSE d[i]]
    ELSE Append(d, [key |-> key, value |-> value])

\* set(d.keys())
Keys(d) == {d[i].key : i \in 1..Len(d)}

----------------------------------------------------------------------------
\* prompt builders

\* f"{x}" of a string or None
Format(x) == IF x = None THEN <<"N", "o", "n", "e">> ELSE x

\* each response listed together with its vote
RECURSIVE ResponseLinesWithVote(_)
ResponseLinesWithVote(d) ==
    IF d = << >> THEN << >>
    ELSE <<Head(d).key, ":\n">>
            \o (IF Head(d).value.agrees THEN <<"T", "r", "u", "e", "\n">>
                ELSE <<"F", "a", "l", "s", "e", "\n">>)
            \o Format(Head(d).value.response) \o <<"\n\n">>
            \o ResponseLinesWithVote(Tail(d))

\* the for loop of both builders: f"{model}:\n{resp['response']}\n\n"
RECURSIVE ResponseLines(_)
ResponseLines(d) ==
    IF d = << >> THEN << >>
    ELSE <<Head(d).key, ":\n">> \o Format(Head(d).value.response) \o <<"\n\n">>
            \o ResponseLines(Tail(d))

PromptHeader(q) ==
    <<"Original question: ">> \o q
        \o <<"\n\n", "Here are the responses from other AI models:\n\n">>

MergeInstructions ==
    "Please merge these responses into a single, comprehensive answer that combines the best aspects of each response. \nYour response should be in the following format:\n\nTrue\n[Merged response that combines the best aspects of all previous responses]\n\nThe first line must be 'True' to indicate you're providing a merged response."

FeedbackInstructions ==
    "Please review these responses and provide your feedback in the following format:\n\nTrue\n[Your merged response that combines the best aspects of all responses]\n\nOR\n\nFalse\n[Your detailed response explaining why you disagree and what should be changed]\n\nThe first line must be exactly 'True' or 'False' to indicate whether you agree with the merged approach."

_create_merge_prompt(q, d) ==
    PromptHeader(q) \o ResponseLines(d) \o <<MergeInstructions>>

_create_feedback_prompt(q, d) ==
    PromptHeader(q) \o ResponseLines(d) \o <<FeedbackInstructions>>

\* the merge prompt kept for every round after the first
SelectPromptMergeOnly(it, q, d) ==
    IF it = 0 THEN q ELSE _create_merge_prompt(q, d)

\* the if/elif/else of lines 128-135
SelectPrompt(it, q, d) ==
    IF it = 0 THEN q
    ELSE IF it = 1 THEN _create_merge_prompt(q, d)
    ELSE _create_feedback_prompt(q, d)

PromptKind(it) ==
    IF it = 0 THEN "question" ELSE IF it = 1 THEN "merge" ELSE "feedback"

----------------------------------------------------------------------------
\* consensus check and return value

\* a check that never reports consensus
_check_consensus_never(d) == FALSE

\* any() in place of all()
_check_consensus_any(d) == \E i \in 1..Len(d) : d[i].value.agrees

\* all(response["agrees"] for response in responses.values())
_check_consensus(d) == \A i \in 1..Len(d) : d[i].value.agrees

\* truth value of merged_response: None and "" are both false
Truthy(x) == x # None /\ x # << >>

\* lines 150 and 155; list(...)[0] of an empty dict raises IndexError
ReturnRaises(merged, d) == ~Truthy(merged) /\ d = << >>

\* the fallback taken from the last response instead of the first
ReturnValueLast(merged, d) ==
    IF Truthy(merged) THEN merged ELSE d[Len(d)].value.response

ReturnValue(merged, d) ==
    IF Truthy(merged) THEN merged ELSE d[1].value.response

\* the store repeated in every merge or feedback round
StoresMergedEveryRound(it, model_name, registry) ==
    it >= 1 /\ model_name = registry[1]

\* the store made for the last registered model instead of the first
StoresMergedLastModel(it, model_name, registry) ==
    it = 1 /\ model_name = registry[Len(registry)]

\* the registry walked from its last name to its first
itemsReversed(registry, i) == registry[Len(registry) + 1 - i]

\* line 127: the i-th name of `for model_name, model_func in
\* self.models.items()`
items(registry, i) == registry[i]

\* line 144: iteration == 1 and model_name == list(self.models.keys())[0]
StoresMerged(it, model_name, registry) ==
    it = 1 /\ model_name = registry[1]

----------------------------------------------------------------------------
\* State

VARIABLES
    models,           \* self.models: the registered names, in insertion order
    max_iterations,   \* self.max_iterations
    pc,               \* "idle", "loop" (line 123), "ask" (lines 127-145 and
                      \* 148), "done" (returned), "raised" (exception left
                      \* get_consensus)
    question,         \* argument of the running call
    iteration,        \* local of get_consensus
    responses,        \* local of get_consensus: dict name -> ModelResponse
    merged_response,  \* local of get_consensus
    k,                \* position of the for loop of line 127 in self.models
    prompt,           \* local of get_consensus: the prompt last built
    result,           \* value returned by the call, when pc = "done"
    error,            \* exception that left the call, when pc = "raised"
    outcome,          \* which message was printed: line 149 or line 154
    \* history of the running call, read by the properties only
    prev,             \* responses as they were when the round began
    roundFirst,       \* text the first registered model returned this round
    first1,           \* text the first registered model returned in iteration 1
    rounds,           \* rounds in which every registered model was asked
    kinds,            \* prompt variants built so far
    allAgree,         \* every response so far had agrees = True
    roundDisagree,    \* some response of this round had agrees = False
    everyRoundDisagreed, \* every completed round had such a response
    calls,            \* adapter calls made so far
    asked,            \* names of the models called this round, in call order
    reused,           \* the object has been through an earlier call
    \* application of one function to one argument, outside any run
    fn,               \* the function applied, "none" before
    arg,              \* its arguments
    ret               \* what it returned

vars == <<models, max_iterations, pc, question, iteration, responses,
          merged_response, k, prompt, result, error, outcome, prev,
          roundFirst, first1, rounds, kinds, allAgree, roundDisagree,
          everyRoundDisagreed, calls, asked, reused, fn, arg, ret>>

config == <<models, max_iterations>>
history == <<prev, roundFirst, first1, rounds, kinds, allAgree,
             roundDisagree, everyRoundDisagreed, calls, asked>>
harness == <<fn, arg, ret>>

\* arguments of no application
NoArg == [content |-> None, q |-> << >>, d |-> << >>]

\* __init__ registers the three adapters and sets max_iterations = 5; both
\* are plain attributes, and the registry is cut down where a key is missing
\* (main, line 159), so every prefix of the registry and every bound up to
\* MaxIter is a configuration.
Init ==
    /\ models \in {SubSeq(ModelNames, 1, n) : n \in 0..Len(ModelNames)}
    /\ max_iterations \in 0..MaxIter
    /\ pc = "idle"
    /\ question = << >>
    /\ iteration = 0
    /\ responses = << >>
    /\ merged_response = None
    /\ k = 1
    /\ prompt = None
    /\ result = None
    /\ error = "none"
    /\ outcome = "none"
    /\ prev = << >>
    /\ roundFirst = None
    /\ first1 = None
    /\ rounds = 0
    /\ kinds = {}
    /\ allAgree = TRUE
    /\ roundDisagree = FALSE
    /\ everyRoundDisagreed = TRUE
    /\ calls = 0
    /\ asked = << >>
    /\ reused = FALSE
    /\ fn = "none"
    /\ arg = NoArg
    /\ ret = None

\* merged_response kept from the call before
CallKeepingMerged(q) ==
    /\ pc \in {"idle", "done", "raised"}
    /\ pc' = "loop"
    /\ question' = q
    /\ iteration' = 0
    /\ responses' = << >>
    /\ k' = 1
    /\ prompt' = None
    /\ result' = None
    /\ error' = "none"
    /\ outcome' = "none"
    /\ prev' = << >>
    /\ roundFirst' = None
    /\ first1' = None
    /\ rounds' = 0
    /\ kinds' = {}
    /\ allAgree' = TRUE
    /\ roundDisagree' = FALSE
    /\ everyRoundDisagreed' = TRUE
    /\ calls' = 0
    /\ asked' = << >>
    /\ reused' = (pc # "idle")
    /\ UNCHANGED <<config, harness, merged_response>>

\* get_consensus(question) is entered: lines 118-121.  main calls it again on
\* the same object after it returned.
Call(q) ==
    /\ pc \in {"idle", "done", "raised"}
    /\ pc' = "loop"
    /\ question' = q
    /\ iteration' = 0
    /\ responses' = << >>
    /\ merged_response' = None
    /\ k' = 1
    /\ prompt' = None
    /\ result' = None
    /\ error' = "none"
    /\ outcome' = "none"
    /\ prev' = << >>
    /\ roundFirst' = None
    /\ first1' = None
    /\ rounds' = 0
    /\ kinds' = {}
    /\ allAgree' = TRUE
    /\ roundDisagree' = FALSE
    /\ everyRoundDisagreed' = TRUE
    /\ calls' = 0
    /\ asked' = << >>
    /\ reused' = (pc # "idle")
    /\ UNCHANGED <<config, harness>>

\* lines 150 and 155: return merged_response if merged_response else
\* list(responses.values())[0]["response"]
Return(how) ==
    /\ outcome' = how
    /\ IF ReturnRaises(merged_response, responses)
       THEN /\ pc' = "raised"
            /\ error' = "IndexError"
            /\ result' = None
       ELSE /\ pc' = "done"
            /\ error' = "none"
            /\ result' = ReturnValue(merged_response, responses)

\* line 123 true: the for loop of line 127 starts
EnterRound ==
    /\ pc = "loop"
    /\ iteration < max_iterations
    /\ pc' = "ask"
    /\ k' = 1
    /\ prev' = responses
    /\ roundFirst' = None
    /\ roundDisagree' = FALSE
    /\ asked' = << >>
    /\ UNCHANGED <<config, question, iteration, responses, merged_response,
                   prompt, result, error, outcome, first1, rounds, kinds,
                   allAgree, everyRoundDisagreed, calls, reused, harness>>

\* line 123 false: lines 154-155
Exhausted ==
    /\ pc = "loop"
    /\ ~(iteration < max_iterations)
    /\ Return("exhausted")
    /\ UNCHANGED <<config, question, iteration, responses, merged_response,
                   k, prompt, history, reused, harness>>

\* one pass of the for body, lines 128-145, for self.models[k]
Ask(o) ==
    /\ pc = "ask"
    /\ k <= Len(models)
    /\ LET model_name == items(models, k)
           r == model_func(model_name, o)
           response == r.value
       IN  /\ prompt' = SelectPrompt(iteration, question, responses)
           /\ kinds' = kinds \cup {PromptKind(iteration)}
           /\ calls' = calls + 1
           /\ asked' = Append(asked, model_name)
           /\ IF r.raised
              THEN \* the exception of the oracle call leaves line 138
                   /\ pc' = "raised"
                   /\ error' = "OracleError"
                   /\ UNCHANGED <<responses, merged_response, k, roundFirst,
                                  first1, allAgree, roundDisagree>>
              ELSE /\ responses' = DictSet(responses, model_name, response)
                   /\ roundFirst' = IF k = 1 THEN response.response
                                    ELSE roundFirst
                   /\ first1' = IF k = 1 /\ iteration = 1
                                THEN response.response ELSE first1
                   /\ allAgree' = (allAgree /\ response.agrees)
                   /\ roundDisagree' = (roundDisagree \/ ~response.agrees)
                   /\ IF response.response = None
                      THEN \* line 141: None[:200] is a TypeError
                           /\ pc' = "raised"
                           /\ error' = "TypeError"
                           /\ UNCHANGED <<merged_response, k>>
                      ELSE /\ merged_response' =
                                IF StoresMerged(iteration, model_name, models)
                                THEN response.response ELSE merged_response
                           /\ k' = k + 1
                           /\ UNCHANGED <<pc, error>>
    /\ UNCHANGED <<config, question, iteration, result, outcome, prev,
                   rounds, everyRoundDisagreed, reused, harness>>

\* the for loop is over: lines 148-152
Check ==
    /\ pc = "ask"
    /\ k > Len(models)
    /\ rounds' = rounds + 1
    /\ everyRoundDisagreed' = (everyRoundDisagreed /\ roundDisagree)
    /\ IF _check_consensus(responses)
       THEN /\ Return("converged")
            /\ UNCHANGED iteration
       ELSE /\ iteration' = iteration + 1
            /\ pc' = "loop"
            /\ UNCHANGED <<result, error, outcome>>
    /\ UNCHANGED <<config, question, responses, merged_response, k, prompt,
                   prev, roundFirst, first1, kinds, allAgree, roundDisagree,
                   calls, asked, reused, harness>>

Next ==
    \/ \E q \in Questions : Call(q)
    \/ EnterRound
    \/ Exhausted
    \/ \E o \in OracleOutcomes : Ask(o)
    \/ Check

Spec == Init /\ [][Next]_vars

TypeOK ==
    /\ pc \in {"idle", "loop", "ask", "done", "raised"}
    /\ iteration \in 0..MaxIter
    /\ k \in 1..(Len(models) + 1)
    /\ error \in {"none", "OracleError", "TypeError", "IndexError"}
    /\ outcome \in {"none", "converged", "exhausted"}

----------------------------------------------------------------------------
\* Properties of get_consensus

InRun == pc \in {"loop", "ask"}
Registered == {models[i] : i \in 1..Len(models)}

\* rounds that have asked all of their models: those already checked, and
\* the current one once its for loop is over
QueriedRounds ==
    rounds + (IF pc = "ask" /\ k > Len(models) THEN 1 ELSE 0)

\* C1 as stated: when every response of the run agreed (at least one model,
\* max_iterations >= 2), the call returns at iteration 1 after two rounds,
\* with the first registered model's iteration-1 text.
C1_Stated ==
    (pc = "done" /\ allAgree /\ Len(models) >= 1 /\ max_iterations >= 2)
        => (iteration = 1 /\ rounds = 2 /\ result = first1)

\* C1 amended: when every response of the run agreed (at least one model,
\* max_iterations >= 2), the run never leaves iteration 0 and builds no merge
\* or feedback prompt, and it returns after exactly one round, as converged,
\* with the first registered model's iteration-0 text.
C1_ReturnsAtIteration0 ==
    (pc # "idle" /\ allAgree /\ Len(models) >= 1 /\ max_iterations >= 2)
        => /\ iteration = 0
           /\ kinds \subseteq {"question"}
           /\ pc = "done" => /\ rounds = 1
                             /\ outcome = "converged"
                             /\ result = roundFirst
                             /\ result # None

C1_Witness ==
    /\ pc = "done" /\ allAgree /\ Len(models) >= 2 /\ max_iterations >= 2
    /\ rounds = 1 /\ iteration = 0 /\ result = roundFirst
    /\ responses[2].value.response # result

\* C2 as stated: when every completed round had a disagreeing response (at
\* least one model, max_iterations >= 2), the call returns after exactly
\* max_iterations rounds with the first registered model's iteration-1 text,
\* which is not absent.
C2_Stated ==
    (pc = "done" /\ everyRoundDisagreed /\ Len(models) >= 1
        /\ max_iterations >= 2)
        => (rounds = max_iterations /\ result = first1 /\ result # None)

\* C3 as stated: in every round i >= 1 each prompt is the one built from the
\* complete responses of round i-1, so all prompts of the round are the same
\* and hold no response of round i.
C3_Stated ==
    (pc = "ask" /\ iteration >= 1 /\ k > 1)
        => prompt = SelectPrompt(iteration, question, prev)

\* C4 as stated: the returned value is merged_response if it has been set,
\* else the first registered model's text of the round just run; so once
\* iteration 1 has run it is that model's iteration-1 text.
C4_Stated ==
    pc = "done"
        => /\ result = IF merged_response # None THEN merged_response
                       ELSE roundFirst
           /\ rounds >= 2 => result = first1

\* C5: with max_iterations = 1 and at least one model, the run has one round
\* only, in which every model is given the question itself; no merge or
\* feedback prompt is built, merged_response is never set, and the value
\* returned is the first registered model's iteration-0 text, whether the
\* round agreed or not.
C5_SingleRound ==
    (max_iterations = 1 /\ Len(models) >= 1 /\ pc # "idle")
        => /\ kinds \subseteq {"question"}
           /\ prompt \in {None, question}
           /\ merged_response = None
           /\ rounds <= 1
           /\ pc = "ask" => iteration = 0
           /\ pc = "done" => /\ rounds = 1
                             /\ result = roundFirst
                             /\ result # None

C5_Witness ==
    /\ max_iterations = 1 /\ Len(models) >= 2 /\ pc = "done"
    /\ outcome = "exhausted" /\ rounds = 1 /\ result = roundFirst
    /\ responses[2].value.response # result

\* C6: within a run merged_response changes in one kind of step only: the
\* pass of the first registered model in iteration 1, from None to the text
\* that model returned; from then on (the consensus check of iteration 1
\* included, whatever it decides) it holds that text.
C6_StoreStep ==
    (InRun /\ merged_response' # merged_response)
        => /\ pc = "ask" /\ iteration = 1 /\ k = 1
           /\ merged_response = None
           /\ merged_response' = first1'
           /\ merged_response' # None

C6_Stored ==
    ((InRun \/ pc = "done")
        /\ (iteration >= 2 \/ (iteration = 1 /\ pc = "ask" /\ k > 1)
              \/ (pc = "done" /\ rounds >= 2)))
        => (merged_response = first1 /\ merged_response # None)

C6_WrittenOnce == [][C6_StoreStep]_vars /\ []C6_Stored

C6_Witness ==
    /\ pc = "done" /\ rounds >= 3 /\ Len(models) >= 2
    /\ merged_response = first1 /\ roundFirst # first1
    /\ first1 # << >>

\* C7 as stated: merged_response is set exactly when two rounds have asked
\* all of their models.
C7_Stated ==
    pc # "idle" => ((merged_response # None) <=> (QueriedRounds >= 2))

\* C7 amended: merged_response is set exactly when iteration 0 has run in
\* full and the first registered model has returned its text in iteration 1,
\* which with two or more models is before the round has asked the others.
C7_SetByFirstModel ==
    pc # "idle"
        => /\ (merged_response # None) <=> (rounds >= 1 /\ first1 # None)
           /\ rounds >= 2 => merged_response # None

C7_Witness ==
    /\ pc = "ask" /\ iteration = 1 /\ rounds = 1 /\ k = 2
    /\ Len(models) >= 2 /\ merged_response # None

\* C8 as stated: once a round is over, by its last pass or by a failure of
\* one of its calls, the keys of responses are the registered models.
C8_Stated ==
    (\/ pc = "ask" /\ k > Len(models)
     \/ pc \in {"loop", "done"} /\ rounds >= 1
     \/ pc = "raised" /\ error \in {"OracleError", "TypeError"})
        => Keys(responses) = Registered

\* C9 as stated: a failing oracle call does not raise out of get_consensus.
C9_Stated == ~(pc = "raised" /\ error = "OracleError")

\* C10 as stated: a payload whose parse raises never surfaces to the caller
\* of get_consensus.
C10_Stated == ~(pc = "raised" /\ error = "TypeError")

----------------------------------------------------------------------------
\* The adapters' parse, the prompt builders and the consensus check applied
\* to single arguments

\* Longest payload, counted in pieces.
MaxPieces == 4

Pieces == {<<"T", "r", "u", "e">>, <<"T", "R", "U", "E">>,
           <<"F", "a", "l", "s", "e">>, <<" ">>, <<"\n">>, <<"a">>}

RECURSIVE Payloads(_)
Payloads(n) ==
    IF n = 0 THEN {<< >>}
    ELSE Payloads(n - 1) \cup {p \o t : p \in Pieces, t \in Payloads(n - 1)}

RawTrueFooBar == <<"T", "r", "u", "e", "\n", "f", "o", "o", " ", "b", "a", "r">>
RawPaddedTrueX == <<" ", "T", "R", "U", "E", " ", "\n", "X">>

Contents ==
    Payloads(MaxPieces) \cup RawOutputs \cup {RawTrueFooBar, RawPaddedTrueX, None}

ResponseTexts == {<< >>, <<"a">>, <<"b">>}
ModelResponses == [agrees : BOOLEAN, response : ResponseTexts]

\* dicts name -> ModelResponse over the prefixes of the registry
Dicts ==
    UNION {{[i \in 1..n |-> [key |-> ModelNames[i], value |-> f[i]]] :
                f \in [1..n -> ModelResponses]} : n \in 0..Len(ModelNames)}

Args ==
    {[content |-> c, q |-> << >>, d |-> << >>] : c \in Contents}
        \cup {[content |-> None, q |-> q, d |-> d] : q \in Questions, d \in Dicts}

HarnessInit ==
    /\ models = ModelNames
    /\ max_iterations = MaxIter
    /\ pc = "idle"
    /\ question = << >>
    /\ iteration = 0
    /\ responses = << >>
    /\ merged_response = None
    /\ k = 1
    /\ prompt = None
    /\ result = None
    /\ error = "none"
    /\ outcome = "none"
    /\ prev = << >>
    /\ roundFirst = None
    /\ first1 = None
    /\ rounds = 0
    /\ kinds = {}
    /\ allAgree = TRUE
    /\ roundDisagree = FALSE
    /\ everyRoundDisagreed = TRUE
    /\ calls = 0
    /\ asked = << >>
    /\ reused = FALSE
    /\ fn = "none"
    /\ arg \in Args
    /\ ret = None

run == <<config, pc, question, iteration, responses, merged_response, k,
         prompt, result, error, outcome, history, reused>>

\* the adapter registered under model_name, its oracle handing back
\* arg.content
ApplyAdapter(model_name) ==
    /\ fn' = model_name
    /\ ret' = model_func(model_name, [ok |-> TRUE, content |-> arg.content])
    /\ UNCHANGED <<arg, run>>

ApplyMergePrompt ==
    /\ fn' = "_create_merge_prompt"
    /\ ret' = _create_merge_prompt(arg.q, arg.d)
    /\ UNCHANGED <<arg, run>>

ApplyFeedbackPrompt ==
    /\ fn' = "_create_feedback_prompt"
    /\ ret' = _create_feedback_prompt(arg.q, arg.d)
    /\ UNCHANGED <<arg, run>>

ApplyCheckConsensus ==
    /\ fn' = "_check_consensus"
    /\ ret' = _check_consensus(arg.d)
    /\ UNCHANGED <<arg, run>>

HarnessNext ==
    \/ \E i \in 1..Len(models) : ApplyAdapter(models[i])
    \/ ApplyMergePrompt
    \/ ApplyFeedbackPrompt
    \/ ApplyCheckConsensus

HarnessSpec == HarnessInit /\ [][HarnessNext]_vars

----------------------------------------------------------------------------
\* Properties of the parse

\* the characters before the first line break
RECURSIVE HeadLine(_)
HeadLine(s) ==
    IF s = << >> \/ Head(s) = "\n" THEN << >>
    ELSE <<Head(s)>> \o HeadLine(Tail(s))

HasBreak(s) == \E i \in 1..Len(s) : s[i] = "\n"

\* the characters after the first line break
RECURSIVE AfterBreak(_)
AfterBreak(s) ==
    IF s = << >> THEN << >>
    ELSE IF Head(s) = "\n" THEN Tail(s) ELSE AfterBreak(Tail(s))

RECURSIVE TrimLeft(_)
TrimLeft(s) ==
    IF s # << >> /\ Head(s) \in Whitespace THEN TrimLeft(Tail(s)) ELSE s

RECURSIVE TrimRight(_)
TrimRight(s) ==
    IF s # << >> /\ s[Len(s)] \in Whitespace
    THEN TrimRight(SubSeq(s, 1, Len(s) - 1)) ELSE s

Trimmed(s) == TrimRight(TrimLeft(s))

\* "true" in any mix of cases
SpellsTrue(h) ==
    /\ Len(h) = 4
    /\ h[1] \in {"t", "T"} /\ h[2] \in {"r", "R"}
    /\ h[3] \in {"u", "U"} /\ h[4] \in {"e", "E"}

IsAdapter == fn \in {ModelNames[i] : i \in 1..Len(ModelNames)}

\* C11 as stated: for every payload string each adapter returns agrees =
\* (first line, trimmed and lowercased, is "true") and as text the characters
\* after the first line break, unchanged, or the whole payload when there is
\* no line break.
C11_Stated ==
    (IsAdapter /\ arg.content # None)
        => /\ ~ret.raised
           /\ ret.value.agrees = SpellsTrue(Trimmed(HeadLine(arg.content)))
           /\ ret.value.response =
                IF HasBreak(arg.content) THEN AfterBreak(arg.content)
                ELSE arg.content

\* C11 amended: for every payload string each adapter returns agrees =
\* (first line, trimmed and lowercased, is "true") and as text the characters
\* after the first line break trimmed of surrounding whitespace, or the whole
\* payload, untrimmed, when there is no line break; "True\nfoo bar" gives
\* (true, "foo bar") and " TRUE \nX" gives (true, "X").
C11_ParseTrimsRest ==
    (IsAdapter /\ arg.content # None)
        => /\ ~ret.raised
           /\ ret.value.agrees = SpellsTrue(Trimmed(HeadLine(arg.content)))
           /\ ret.value.response =
                IF HasBreak(arg.content) THEN Trimmed(AfterBreak(arg.content))
                ELSE arg.content
           /\ arg.content = RawTrueFooBar =>
                ret.value = [agrees |-> TRUE,
                             response |-> <<"f", "o", "o", " ", "b", "a", "r">>]
           /\ arg.content = RawPaddedTrueX =>
                ret.value = [agrees |-> TRUE, response |-> <<"X">>]

C11_Witness ==
    /\ fn = "Claude" /\ arg.content = RawPaddedTrueA
    /\ ret.value = [agrees |-> TRUE, response |-> <<"a">>]

----------------------------------------------------------------------------
\* Properties of the consensus check

\* d with every text replaced by t
WithTexts(d, t) ==
    [i \in 1..Len(d) |->
        [key |-> d[i].key,
         value |-> [agrees |-> d[i].value.agrees, response |-> t]]]

\* d with every vote replaced by b
WithVotes(d, b) ==
    [i \in 1..Len(d) |->
        [key |-> d[i].key,
         value |-> [agrees |-> b, response |-> d[i].value.response]]]

Dissenters(d) == {i \in 1..Len(d) : ~d[i].value.agrees}

\* C14: _check_consensus returns true exactly when no entry of the dict has
\* agrees = False, so true for the empty dict and false with one dissenter;
\* the texts do not enter the result.
C14_AllAgree ==
    fn = "_check_consensus"
        => /\ ret <=> (Dissenters(arg.d) = {})
           /\ arg.d = << >> => ret
           /\ \A t \in ResponseTexts : ret = _check_consensus(WithTexts(arg.d, t))

C14_Witness ==
    /\ fn = "_check_consensus" /\ Len(arg.d) = 3
    /\ Cardinality(Dissenters(arg.d)) = 1 /\ ret = FALSE

----------------------------------------------------------------------------
\* Properties of the prompt builders

\* C20: the merge prompt and the feedback prompt of a dict are those of the
\* same dict with all votes set to True and with all votes set to False, so
\* two dicts that differ in votes only give the same prompt.
C20_VotesNotInPrompt ==
    /\ fn = "_create_merge_prompt"
        => \A b \in BOOLEAN :
              ret = _create_merge_prompt(arg.q, WithVotes(arg.d, b))
    /\ fn = "_create_feedback_prompt"
        => \A b \in BOOLEAN :
              ret = _create_feedback_prompt(arg.q, WithVotes(arg.d, b))

C20_Witness ==
    /\ fn = "_create_feedback_prompt" /\ Len(arg.d) = 3
    /\ arg.d[1].value.agrees /\ ~arg.d[2].value.agrees
    /\ ret = _create_feedback_prompt(arg.q, WithVotes(arg.d, TRUE))

----------------------------------------------------------------------------
\* Further properties of get_consensus

\* C12 as stated: an empty registry or a max_iterations <= 0 never makes a
\* call of get_consensus fail in mid-run.
C12_Stated == ~(pc = "raised" /\ error = "IndexError")

\* C13 as stated: with at least one model, max_iterations >= 1 and no adapter
\* call raising, a call runs at most max_iterations rounds and at most
\* max_iterations * (number of models) adapter calls, and it ends only by
\* returning a string after at least one round.
C13_Stated ==
    (Len(models) >= 1 /\ max_iterations >= 1 /\ error # "OracleError")
        => /\ rounds <= max_iterations
           /\ calls <= max_iterations * Len(models)
           /\ pc \in {"done", "raised"}
                => (pc = "done" /\ rounds >= 1 /\ result # None)

\* C15: no step changes self.models or self.max_iterations; a call entered
\* on an object that has run before starts with iteration 0, an empty
\* responses dict and merged_response None, as the first call does, and no
\* run holds a response or a merged_response before its first adapter call.
C15_CallStep ==
    /\ config' = config
    /\ (pc \in {"idle", "done", "raised"} /\ pc' = "loop")
          => (iteration' = 0 /\ responses' = << >> /\ merged_response' = None)

C15_FreshStart ==
    (pc \in {"loop", "ask"} /\ calls = 0)
        => (iteration = 0 /\ responses = << >> /\ merged_response = None)

C15_NoStateBetweenRuns == [][C15_CallStep]_vars /\ []C15_FreshStart

C15_Witness ==
    /\ reused /\ pc = "ask" /\ iteration = 1 /\ k = 2
    /\ merged_response = first1 /\ merged_response # None

\* C17: with at least one model, the step after the last pass of a round,
\* round 0 included, returns as converged when no response of the round had
\* agrees = False and otherwise moves to the next iteration; from there a
\* round starts if the iteration is below max_iterations and else the call
\* returns as exhausted; after a return no adapter is called until the next
\* call of get_consensus.
C17_Step ==
    /\ (pc = "ask" /\ k > Len(models) /\ Len(models) >= 1)
          => IF ~roundDisagree
             THEN pc' = "done" /\ outcome' = "converged"
                    /\ iteration' = iteration /\ calls' = calls
             ELSE pc' = "loop" /\ iteration' = iteration + 1
    /\ (pc = "loop" /\ Len(models) >= 1 /\ max_iterations >= 1)
          => IF iteration < max_iterations
             THEN pc' = "ask" /\ asked' = << >>
             ELSE pc' = "done" /\ outcome' = "exhausted" /\ calls' = calls
    /\ pc = "done" => (pc' = "loop" /\ calls' = 0)

C17_CheckedEveryRound == [][C17_Step]_vars

C17_Witness ==
    /\ pc = "done" /\ outcome = "converged" /\ iteration = 0
    /\ Len(models) = 3 /\ calls = 3 /\ asked = models

\* C18: in every round the models called so far are the first names of the
\* registry, in its order, each once; at the end of the for loop they are
\* the whole registry; and a call of a round is made only when every
\* earlier round has made all its calls and its consensus check.
C18_SequentialCalls ==
    /\ Len(asked) <= Len(models)
    /\ \A i \in 1..Len(asked) : asked[i] = models[i]
    /\ (pc = "ask" /\ k > Len(models)) => asked = models
    /\ (pc = "ask" \/ (pc = "raised" /\ error \in {"OracleError", "TypeError"}))
          => /\ rounds = iteration
             /\ calls = (iteration * Len(models)) + Len(asked)

C18_Witness ==
    /\ pc = "ask" /\ iteration = 2 /\ Len(models) = 3 /\ asked = models
    /\ calls = 9

\* the variant of a prompt built for question q
IsMergePrompt(p, q) ==
    /\ Len(p) >= Len(q) + 4
    /\ p[1] = "Original question: "
    /\ SubSeq(p, 2, Len(q) + 1) = q
    /\ p[Len(p)] = MergeInstructions

IsFeedbackPrompt(p, q) ==
    /\ Len(p) >= Len(q) + 4
    /\ p[1] = "Original question: "
    /\ SubSeq(p, 2, Len(q) + 1) = q
    /\ p[Len(p)] = FeedbackInstructions

\* C19: every adapter call of iteration 0 is given the question itself,
\* every call of iteration 1 a merge prompt, every call of a later iteration
\* a feedback prompt, whichever model is called and whatever the votes were.
C19_Step ==
    (calls' = calls + 1)
        => /\ iteration = 0 => prompt' = question
           /\ iteration = 1 => IsMergePrompt(prompt', question)
           /\ iteration >= 2 => IsFeedbackPrompt(prompt', question)

C19_VariantByIteration == [][C19_Step]_vars

C19_Witness ==
    /\ pc = "ask" /\ iteration = 2 /\ Len(asked) = 2
    /\ IsFeedbackPrompt(prompt, question) /\ allAgree = FALSE

====
